---- MODULE Spec2Model ----
(***************************************************************************)
(* Model of titiler.core.rt_sentinel: the Sentinel-2 scene reader          *)
(* S2L2ACOGReaderFF (construction in __attrs_post_init__, band URL         *)
(* resolution in _get_band_url) and its factory S2COGReaderFF.             *)
(*                                                                         *)
(* Python strings are TLA+ strings where they are only concatenated and    *)
(* compared (host names, prefixes, URLs, metadata values).  A band label   *)
(* is a sequence of one-character strings, because _get_band_url takes     *)
(* its length and its last character; Join turns it back into a string.    *)
(***************************************************************************)
EXTENDS Integers, Sequences, FiniteSets, TLC

VARIABLES
    sceneid,    \* the scene identifier handed to the factory (name + scene_metadata)
    kwargs,     \* keyword overrides of the request: hostname, prefix
    store,      \* what object storage holds at <prefix>/tileInfo.json
    pc,         \* "request" | "constructed" | "failed"
    reader,     \* the S2L2ACOGReaderFF instance, NoReader when none was built
    result,     \* what S2COGReaderFF gave its caller: a return or a raise
    fetched,    \* the get_object calls issued so far, in order
    formats,    \* number of prefix.format calls made by the constructor
    log,        \* events written to the "uvicorn.error" logger
    calls       \* the _get_band_url calls made on the reader, with outcomes

vars == <<sceneid, kwargs, store, pc, reader, result, fetched, formats, log, calls>>

(***************************************************************************)
(* Bounds                                                                  *)
(***************************************************************************)
MaxCalls == 3

(***************************************************************************)
(* Small helpers                                                           *)
(***************************************************************************)
None == [none |-> TRUE]

Unset == <<>>

NoReader == [noreader |-> TRUE]

Without(f, k) == [x \in DOMAIN f \ {k} |-> f[x]]

RECURSIVE Join(_)
Join(s) == IF s = <<>> THEN "" ELSE Head(s) \o Join(Tail(s))

Range(s) == {s[i] : i \in 1..Len(s)}

Min(S) == CHOOSE x \in S : \A y \in S : x <= y

Max(S) == CHOOSE x \in S : \A y \in S : x >= y

(***************************************************************************)
(* Module constants of rt_sentinel.py                                      *)
(***************************************************************************)
actual_l1c_bands == <<"B03", "B04", "B08">>

WGS84_CRS == "EPSG:4326"

scheme == "s3"

default_hostname == "sn-satellite"

minzoom == 8

maxzoom == 14

Lit(s) == [ph |-> FALSE, text |-> s]

Ph(k) == [ph |-> TRUE, text |-> k]

\* "s2_{acquisitionYear}_{acquisitionMonth}/{_utm}{lat}{sq},
\*  {acquisitionYear}-{acquisitionMonth}-{acquisitionDay},{num}"
default_prefix ==
    << Lit("s2_"), Ph("acquisitionYear"), Lit("_"), Ph("acquisitionMonth"),
       Lit("/"), Ph("_utm"), Ph("lat"), Ph("sq"), Lit(","),
       Ph("acquisitionYear"), Lit("-"), Ph("acquisitionMonth"), Lit("-"),
       Ph("acquisitionDay"), Lit(","), Ph("num") >>

SupportedLevelsWide == {"L2A", "L1C", "L2B"}

SupportedLevels == {"L2A", "L1C"}

(***************************************************************************)
(* Inputs: scene identifiers, keyword overrides, sidecar documents, labels *)
(***************************************************************************)
MetaA ==
    [ sensor |-> "2", satellite |-> "A", _utm |-> "29", lat |-> "R", sq |-> "KH",
      acquisitionYear |-> "2020", acquisitionMonth |-> "02",
      acquisitionDay |-> "19", num |-> "0", processingLevel |-> "L2A",
      _levelLow |-> "l2a" ]

MetaB ==
    [ sensor |-> "2", satellite |-> "B", _utm |-> "30", lat |-> "T", sq |-> "XK",
      acquisitionYear |-> "2021", acquisitionMonth |-> "07",
      acquisitionDay |-> "03", num |-> "1", processingLevel |-> "L1C" ]

Scenes ==
    { [name |-> "S2A_29RKH_20200219_0_L2A", scene_metadata |-> MetaA],
      [name |-> "S2B_30TXK_20210703_1_L1C", scene_metadata |-> MetaB],
      [name |-> "S2A_29RKH_20200219_0_L2B",
       scene_metadata |-> [MetaA EXCEPT !.processingLevel = "L2B"]],
      [name |-> "S2A_29RKH_20200219_L2A",
       scene_metadata |-> Without(MetaA, "num")],
      [name |-> "S2A_29RKH_20200219_0",
       scene_metadata |-> Without(MetaA, "processingLevel")] }

\* "sentinel-s2-{_levelLow}-cogs/{_utm}/{lat}/{sq}": an override that names
\* a field only some scenes carry
cogs_prefix ==
    << Lit("sentinel-s2-"), Ph("_levelLow"), Lit("-cogs/"), Ph("_utm"),
       Lit("/"), Ph("lat"), Lit("/"), Ph("sq") >>

KwargsSet ==
    { [hostname |-> default_hostname, prefix |-> default_prefix],
      [hostname |-> "sentinel-cogs", prefix |-> default_prefix],
      [hostname |-> default_hostname, prefix |-> cogs_prefix] }

CrsDecl(n) == [type |-> "name", properties |-> [name |-> n]]

NameA == "urn:ogc:def:crs:EPSG:8.8.1:32629"

NameB == "urn:ogc:def:crs:EPSG:8.8.1:32630"

RingA == << <<2, 50>>, <<11, 50>>, <<11, 41>>, <<2, 41>>, <<2, 50>> >>

RingB == << <<-7, 3>>, <<-1, 9>>, <<-4, -2>>, <<-7, 3>> >>

Doc(v) == [reachable |-> TRUE, json |-> TRUE, value |-> v]

StoreDown == [reachable |-> FALSE]

StoreBadJson == [reachable |-> TRUE, json |-> FALSE]

StoreNoGeom == Doc([path |-> "tiles/29/R/KH/2020/2/19/0"])

StoreNoCoords ==
    Doc([tileDataGeometry |-> [type |-> "Polygon", crs |-> CrsDecl(NameA)]])

StoreNoCrs ==
    Doc([tileDataGeometry |-> [type |-> "Polygon", coordinates |-> <<RingA>>]])

StoreBadCrs ==
    Doc([tileDataGeometry |->
            [type |-> "Polygon", crs |-> CrsDecl("urn:ogc:def:crs:none"),
             coordinates |-> <<RingA>>]])

StoreGoodA ==
    Doc([tileDataGeometry |->
            [type |-> "Polygon", crs |-> CrsDecl(NameA), coordinates |-> <<RingA>>]])

StoreGoodB ==
    Doc([tileDataGeometry |->
            [type |-> "Polygon", crs |-> CrsDecl(NameB), coordinates |-> <<RingB>>]])

Stores ==
    { StoreDown, StoreBadJson, StoreNoGeom, StoreNoCoords, StoreNoCrs,
      StoreBadCrs, StoreGoodA, StoreGoodB }

Labels ==
    { <<>>, <<"4">>, <<"8">>, <<"1", "3">>, <<"B", "0", "4">>,
      <<"B", "0", "3">>, <<"B", "1", "3">>, <<"B", "8", "A">>,
      <<"1", "2">>, <<"B", "0", "0", "4">> }

(***************************************************************************)
(* Library calls used by the reader                                        *)
(***************************************************************************)
\* str.format(**mapping) over a template of literal and {field} tokens:
\* KeyError when a named field has no entry in the mapping.
RECURSIVE Format(_, _)
Format(template, mapping) ==
    IF template = <<>> THEN [ok |-> TRUE, val |-> ""]
    ELSE LET t == Head(template)
             rest == Format(Tail(template), mapping)
         IN IF t.ph /\ t.text \notin DOMAIN mapping
            THEN [ok |-> FALSE, val |-> t.text]
            ELSE IF ~rest.ok THEN rest
            ELSE [ok |-> TRUE,
                  val |-> (IF t.ph THEN mapping[t.text] ELSE t.text) \o rest.val]

\* rasterio.features.bounds of a GeoJSON geometry: (min x, min y, max x, max y)
\* over all its coordinates; ValueError when it has no coordinates.
featureBounds(geom) ==
    IF "coordinates" \notin DOMAIN geom THEN [ok |-> FALSE]
    ELSE LET pts == UNION {Range(ring) : ring \in Range(geom.coordinates)}
             xs == {p[1] : p \in pts}
             ys == {p[2] : p \in pts}
         IN [ok |-> TRUE, val |-> <<Min(xs), Min(ys), Max(xs), Max(ys)>>]

\* rasterio CRS.from_user_input of a CRS name: the CRS it names, whether
\* written as an OGC URN or as an "EPSG:<code>" authority string; CRSError
\* when the name is not a known CRS.
KnownCRS ==
    { <<NameA, "EPSG:32629">>, <<NameB, "EPSG:32630">>,
      <<"urn:ogc:def:crs:EPSG:8.8.1:4326", "EPSG:4326">>,
      <<"urn:ogc:def:crs:EPSG:8.8.1:3857", "EPSG:3857">>,
      <<"EPSG:32629", "EPSG:32629">>, <<"EPSG:32630", "EPSG:32630">>,
      <<"EPSG:4326", "EPSG:4326">>, <<"EPSG:3857", "EPSG:3857">> }

CRS_from_user_input(n) ==
    IF \E e \in KnownCRS : e[1] = n
    THEN [ok |-> TRUE, val |-> (CHOOSE e \in KnownCRS : e[1] = n)[2]]
    ELSE [ok |-> FALSE]

(***************************************************************************)
(* S2L2ACOGReaderFF.__attrs_post_init__                                    *)
(*                                                                         *)
(* The statements of the try block act on the fields of self one after     *)
(* the other; once one has raised the rest are skipped.  bounds and        *)
(* datageom are not assigned before the try block, so they stay Unset      *)
(* until line 101, respectively line 100, has run.                         *)
(***************************************************************************)
BeforeTry ==
    [raised |-> FALSE, bands |-> <<>>, crs |-> WGS84_CRS, bounds |-> Unset,
     stac_item |-> None, tileInfo |-> None, datageom |-> Unset]

\* self.tileInfo = json.loads(get_object(hostname, f"{prefix2}/tileInfo.json"))
LoadTileInfo(s, obj) ==
    IF s.raised THEN s
    ELSE IF ~obj.reachable THEN [s EXCEPT !.raised = TRUE]
    ELSE IF ~obj.json THEN [s EXCEPT !.raised = TRUE]
    ELSE [s EXCEPT !.tileInfo = obj.value]

\* self.datageom = self.tileInfo["tileDataGeometry"]
LoadDatageom(s) ==
    IF s.raised THEN s
    ELSE IF "tileDataGeometry" \notin DOMAIN s.tileInfo
    THEN [s EXCEPT !.raised = TRUE]
    ELSE [s EXCEPT !.datageom = s.tileInfo.tileDataGeometry]

\* self.bounds = featureBounds(self.datageom)
LoadBounds(s) ==
    IF s.raised THEN s
    ELSE LET b == featureBounds(s.datageom)
         IN IF ~b.ok THEN [s EXCEPT !.raised = TRUE]
            ELSE [s EXCEPT !.bounds = b.val]

\* self.crs = CRS.from_user_input(self.datageom["crs"]["properties"]["name"])
LoadCrs(s) ==
    IF s.raised THEN s
    ELSE IF \/ "crs" \notin DOMAIN s.datageom
            \/ "properties" \notin DOMAIN s.datageom.crs
            \/ "name" \notin DOMAIN s.datageom.crs.properties
    THEN [s EXCEPT !.raised = TRUE]
    ELSE LET c == CRS_from_user_input(s.datageom.crs.properties.name)
         IN IF ~c.ok THEN [s EXCEPT !.raised = TRUE]
            ELSE [s EXCEPT !.crs = c.val]

LoadBandsEarly(s) == [s EXCEPT !.bands = actual_l1c_bands]

\* self.bands = actual_l1c_bands
LoadBands(s) ==
    IF s.raised THEN s ELSE [s EXCEPT !.bands = actual_l1c_bands]

TryBlock(obj) ==
    LoadBands(LoadCrs(LoadBounds(LoadDatageom(LoadTileInfo(BeforeTry, obj)))))

\* The whole constructor: the attrs-generated __init__ (fields from the
\* arguments and their defaults) followed by __attrs_post_init__.
PostInit(input, kw, obj) ==
    LET scene_params == input.scene_metadata
        prefix2 == Format(kw.prefix, scene_params)
        key == prefix2.val \o "/tileInfo.json"
        s == TryBlock(obj)
    IN IF ~prefix2.ok
       THEN [raised |-> TRUE, exc |-> "KeyError", arg |-> prefix2.val,
             self |-> NoReader, fetched |-> <<>>, formats |-> 1, log |-> <<>>]
       ELSE [raised |-> FALSE,
             self |-> [input |-> input, scene_params |-> scene_params,
                       hostname |-> kw.hostname, prefix |-> kw.prefix,
                       minzoom |-> minzoom, maxzoom |-> maxzoom,
                       bands |-> s.bands, crs |-> s.crs, bounds |-> s.bounds,
                       stac_item |-> s.stac_item, tileInfo |-> s.tileInfo,
                       datageom |-> s.datageom],
             fetched |-> << [bucket |-> kw.hostname, key |-> key] >>,
             formats |-> 1,
             log |-> IF s.raised
                     THEN << [level |-> "error",
                              msg |-> "Failed to read from S3:  " \o kw.hostname
                                      \o ", " \o key] >>
                     ELSE <<>>]

(***************************************************************************)
(* S2L2ACOGReaderFF._get_band_url                                          *)
(***************************************************************************)
\* band if len(band) == 3 else f"B0{band[-1]}"   (band is not empty here)
Normalize(band) ==
    IF Len(band) = 3 THEN band ELSE <<"B", "0", band[Len(band)]>>

\* band in self.bands: bands is the tuple actual_l1c_bands, or the empty
\* string "" that no non-empty band is a substring of
InBands(b, bands) == Join(b) \in Range(bands)

get_band_url_raw(self, band) ==
    IF band = <<>> THEN [kind |-> "return", value |-> "hej"]
    ELSE LET b == Normalize(band)
         IN IF ~InBands(b, self.bands)
            THEN [kind |-> "raise", exc |-> "InvalidBandName",
                  band |-> Join(b), valid |-> self.bands]
            ELSE [kind |-> "return",
                  value |-> scheme \o "://" \o self.hostname \o "/"
                            \o Format(self.prefix, self.scene_params).val
                            \o "/" \o Join(band) \o ".tif"]

get_band_url(self, band) ==
    IF band = <<>> THEN [kind |-> "return", value |-> "hej"]
    ELSE LET b == Normalize(band)
         IN IF ~InBands(b, self.bands)
            THEN [kind |-> "raise", exc |-> "InvalidBandName",
                  band |-> Join(b), valid |-> self.bands]
            ELSE [kind |-> "return",
                  value |-> scheme \o "://" \o self.hostname \o "/"
                            \o Format(self.prefix, self.scene_params).val
                            \o "/" \o Join(b) \o ".tif"]

(***************************************************************************)
(* State machine                                                           *)
(***************************************************************************)
Init ==
    /\ sceneid \in Scenes
    /\ kwargs \in KwargsSet
    /\ store \in Stores
    /\ pc = "request"
    /\ reader = NoReader
    /\ result = [kind |-> "pending"]
    /\ fetched = <<>>
    /\ formats = 0
    /\ log = <<>>
    /\ calls = <<>>

\* The factory call of one request, constructor included.
S2COGReaderFF ==
    /\ pc = "request"
    /\ LET scene_params == sceneid.scene_metadata
       IN IF "processingLevel" \notin DOMAIN scene_params
          THEN /\ result' = [kind |-> "raise", exc |-> "KeyError",
                             arg |-> "processingLevel"]
               /\ pc' = "failed"
               /\ UNCHANGED <<reader, fetched, formats, log>>
          ELSE LET level == scene_params.processingLevel
               IN IF level \in SupportedLevels
                  THEN LET r == PostInit(sceneid, kwargs, store)
                       IN /\ fetched' = fetched \o r.fetched
                          /\ formats' = formats + r.formats
                          /\ log' = log \o r.log
                          /\ IF r.raised
                             THEN /\ result' = [kind |-> "return", type |-> "str",
                                                value |-> "Strange"]
                                  /\ pc' = "failed"
                                  /\ reader' = NoReader
                             ELSE /\ result' = [kind |-> "return",
                                                type |-> "S2L2ACOGReaderFF"]
                                  /\ pc' = "constructed"
                                  /\ reader' = r.self
                  ELSE /\ log' = Append(log,
                                    [level |-> "error",
                                     msg |-> level \o " is not supported, "
                                             \o sceneid.name])
                       /\ result' = [kind |-> "raise", exc |-> "Exception",
                                     arg |-> level \o " is not supported"]
                       /\ pc' = "failed"
                       /\ UNCHANGED <<reader, fetched, formats>>
    /\ UNCHANGED <<sceneid, kwargs, store, calls>>

GetBandUrlRefetch(band) ==
    /\ pc = "constructed"
    /\ Len(calls) < MaxCalls
    /\ calls' = Append(calls, [band |-> band, out |-> get_band_url(reader, band)])
    /\ fetched' = Append(fetched,
                         [bucket |-> reader.hostname,
                          key |-> Format(reader.prefix, reader.scene_params).val
                                  \o "/tileInfo.json"])
    /\ UNCHANGED <<sceneid, kwargs, store, pc, reader, result, formats, log>>

GetBandUrlClearing(band) ==
    /\ pc = "constructed"
    /\ Len(calls) < MaxCalls
    /\ LET out == get_band_url(reader, band)
       IN /\ calls' = Append(calls, [band |-> band, out |-> out])
          /\ reader' = IF out.kind = "raise"
                       THEN [reader EXCEPT !.bands = <<>>] ELSE reader
    /\ UNCHANGED <<sceneid, kwargs, store, pc, result, fetched, formats, log>>

\* One _get_band_url call by the hosting framework on the constructed reader.
GetBandUrl(band) ==
    /\ pc = "constructed"
    /\ Len(calls) < MaxCalls
    /\ calls' = Append(calls, [band |-> band, out |-> get_band_url(reader, band)])
    /\ UNCHANGED <<sceneid, kwargs, store, pc, reader, result, fetched, formats, log>>

Next ==
    \/ S2COGReaderFF
    \/ \E band \in Labels : GetBandUrl(band)

Spec == Init /\ [][Next]_vars

(***************************************************************************)
(* Vocabulary of the properties                                            *)
(***************************************************************************)
Meta == sceneid.scene_metadata

Done == pc # "request"

Constructed == pc = "constructed"

LevelSupported ==
    "processingLevel" \in DOMAIN Meta /\ Meta.processingLevel \in {"L2A", "L1C"}

MissingPlaceholder ==
    \E i \in 1..Len(kwargs.prefix) :
        kwargs.prefix[i].ph /\ kwargs.prefix[i].text \notin DOMAIN Meta

WholeEarth == <<-180, -90, 180, 90>>

FixedBands == <<"B03", "B04", "B08">>

Digits == {"0", "1", "2", "3", "4", "5", "6", "7", "8", "9"}

NumericLabel(b) == Len(b) \in {1, 2} /\ \A i \in 1..Len(b) : b[i] \in Digits

ZeroPadded(n) == IF Len(n) = 1 THEN <<"B", "0", n[1]>> ELSE <<"B", n[1], n[2]>>

SameOutcome(a, b) == a.kind = b.kind /\ (a.kind = "return" => a.value = b.value)

SameCode(a, b) ==
    a = b \/ (a # <<>> /\ b # <<>> /\ Normalize(a) = Normalize(b))

CallIds == 1..Len(calls)

(***************************************************************************)
(* C1: for a scene whose processingLevel is not "L2A" or "L1C", the        *)
(* factory ends in an error raised to the caller, and on that path no      *)
(* reader is constructed, no prefix is formatted, no sidecar fetch is      *)
(* issued and nothing is returned.                                         *)
(***************************************************************************)
C1_UnsupportedLevelRaises ==
    (Done /\ ~LevelSupported) =>
        /\ pc = "failed"
        /\ result.kind = "raise"
        /\ reader = NoReader
        /\ formats = 0
        /\ fetched = <<>>

C1_Witness ==
    /\ pc = "failed"
    /\ "processingLevel" \in DOMAIN Meta
    /\ Meta.processingLevel = "L2B"
    /\ result = [kind |-> "raise", exc |-> "Exception", arg |-> "L2B is not supported"]

(***************************************************************************)
(* C2: when the prefix template names a placeholder the scene metadata     *)
(* has no entry for, the factory call with a supported level ends in an    *)
(* error raised to the caller and never returns a value.                   *)
(***************************************************************************)
C2_MissingFieldPropagates ==
    (Done /\ LevelSupported /\ MissingPlaceholder) => result.kind = "raise"

(***************************************************************************)
(* C3: for each way the sidecar step fails (network error, invalid JSON,   *)
(* no geometry key, geometry without CRS declaration) construction         *)
(* completes without raising, and the reader has no bands, the             *)
(* whole-earth bounds, the default geographic CRS and exactly one log      *)
(* event.                                                                  *)
(***************************************************************************)
C3_DegradedDefaults ==
    ( /\ Done /\ LevelSupported /\ ~MissingPlaceholder
      /\ store \in {StoreDown, StoreBadJson, StoreNoGeom, StoreNoCrs} ) =>
        /\ Constructed
        /\ result = [kind |-> "return", type |-> "S2L2ACOGReaderFF"]
        /\ reader.bands = <<>>
        /\ reader.bounds = WholeEarth
        /\ reader.crs = "EPSG:4326"
        /\ Len(log) = 1

(***************************************************************************)
(* C4: on a constructed reader, every label (the empty one included)       *)
(* whose normalized form is not an available band makes _get_band_url      *)
(* raise InvalidBandName listing the reader's bands, returning nothing.    *)
(***************************************************************************)
C4_InvalidLabelRaises ==
    Constructed =>
        \A i \in CallIds :
            LET c == calls[i]
            IN (c.band = <<>> \/ Join(Normalize(c.band)) \notin Range(reader.bands)) =>
                   /\ c.out.kind = "raise"
                   /\ c.out.exc = "InvalidBandName"
                   /\ c.out.valid = reader.bands

(***************************************************************************)
(* C5: a numeric-only label n of one or two digits is treated as "B"       *)
(* followed by n zero-padded to two digits: the call has the same outcome  *)
(* (same URL, or InvalidBandName) as the call with that 3-character code.  *)
(***************************************************************************)
C5_NumericLabelZeroPadded ==
    Constructed =>
        \A i \in CallIds :
            NumericLabel(calls[i].band) =>
                SameOutcome(calls[i].out, get_band_url(reader, ZeroPadded(calls[i].band)))

(***************************************************************************)
(* C6: whenever _get_band_url returns a value, it is                       *)
(* scheme://hostname/<formatted prefix>/<normalized band>.tif with the     *)
(* normalized band an available band; for the L2A scenario the URL of      *)
(* "B04" is s3://sn-satellite/s2_2020_02/29RKH,2020-02-19,0/B04.tif.       *)
(***************************************************************************)
C6_ReturnedValueIsBandUrl ==
    Constructed =>
        \A i \in CallIds :
            LET c == calls[i]
            IN c.out.kind = "return" =>
                   /\ c.band # <<>>
                   /\ Join(Normalize(c.band)) \in Range(reader.bands)
                   /\ c.out.value = "s3://" \o reader.hostname \o "/"
                                     \o Format(reader.prefix, reader.scene_params).val
                                     \o "/" \o Join(Normalize(c.band)) \o ".tif"
                   /\ ( /\ Meta = MetaA
                        /\ kwargs = [hostname |-> "sn-satellite", prefix |-> default_prefix]
                        /\ c.band = <<"B", "0", "4">> ) =>
                          c.out.value =
                              "s3://sn-satellite/s2_2020_02/29RKH,2020-02-19,0/B04.tif"

(***************************************************************************)
(* C7: a reader issues exactly one sidecar fetch, at construction,         *)
(* whether it succeeds or fails; afterwards every label in its bands       *)
(* resolves to a URL and no _get_band_url call, succeeding or failing,     *)
(* issues another fetch: the fetch count stays 1.                          *)
(***************************************************************************)
C7_ExactlyOneFetch ==
    Constructed =>
        /\ Len(fetched) = 1
        /\ fetched[1].bucket = reader.hostname
        /\ \A i \in CallIds :
               Join(calls[i].band) \in Range(reader.bands) =>
                   /\ calls[i].out.kind = "return"
                   /\ calls[i].out.value # "hej"

C7_Witness ==
    /\ Constructed
    /\ Len(fetched) = 1
    /\ \E i, j \in CallIds :
           /\ calls[i].out.kind = "raise"
           /\ Join(calls[j].band) \in Range(reader.bands)
           /\ calls[j].out.kind = "return"

(***************************************************************************)
(* C8: two _get_band_url calls on the same reader whose labels normalize   *)
(* to the same band code (the same label twice, or "4" and "B04") have     *)
(* identical results, whatever calls happen between them.                  *)
(***************************************************************************)
C8_SameCodeSameResult ==
    Constructed =>
        \A i, j \in CallIds :
            /\ SameCode(calls[i].band, calls[j].band) => calls[i].out = calls[j].out
            /\ (calls[i].band = <<"4">> /\ calls[j].band = <<"B", "0", "4">>) =>
                   calls[i].out = calls[j].out

C8_Witness ==
    /\ Constructed
    /\ Len(calls) = 3
    /\ calls[1].band = <<"4">>
    /\ calls[2].band = <<"B", "1", "3">>
    /\ calls[3].band = <<"B", "0", "4">>
    /\ calls[1].out.kind = "return"
    /\ calls[3].out = calls[1].out

(***************************************************************************)
(* C9: after construction the reader never changes: a _get_band_url call,  *)
(* returning or raising, leaves bands, bounds, crs, hostname, prefix and   *)
(* scene metadata as they were, so a call that raised InvalidBandName is   *)
(* followed by success for any later valid label.                          *)
(***************************************************************************)
C9_ReaderImmutable ==
    /\ [][Constructed => (reader' = reader /\ pc' = pc)]_vars
    /\ [](Constructed =>
            \A i, j \in CallIds :
                ( /\ i < j
                  /\ calls[i].out.kind = "raise"
                  /\ Join(calls[j].band) \in Range(FixedBands)
                  /\ store \in {StoreGoodA, StoreGoodB} ) =>
                      calls[j].out.kind = "return")

C9_Witness ==
    /\ Constructed
    /\ \E i, j \in CallIds :
           /\ i < j
           /\ calls[i].out.kind = "raise"
           /\ calls[i].out.exc = "InvalidBandName"
           /\ calls[j].out.kind = "return"
           /\ calls[j].out.value # "hej"

(***************************************************************************)
(* C10: a constructed reader has bands exactly when the fetch, the JSON    *)
(* parse, the geometry extraction and the CRS extraction all succeeded;    *)
(* then bounds is the bounding box of the document's geometry, crs is the  *)
(* CRS its geometry names, and bands is the same fixed set whatever the    *)
(* document holds.                                                         *)
(***************************************************************************)
C10_BandsIffSidecarRead ==
    Constructed =>
        /\ reader.bands # <<>> <=> store \in {StoreGoodA, StoreGoodB}
        /\ reader.bands # <<>> => reader.bands = FixedBands
        /\ store = StoreGoodA =>
               reader.bounds = <<2, 41, 11, 50>> /\ reader.crs = "EPSG:32629"
        /\ store = StoreGoodB =>
               reader.bounds = <<-7, -2, -1, 9>> /\ reader.crs = "EPSG:32630"

C10_Witness ==
    /\ Constructed
    /\ store = StoreGoodB
    /\ reader.bands = FixedBands
    /\ reader.crs = "EPSG:32630"

====
